---- MODULE Spec2Model ----
(***************************************************************************)
(* Import of the Python package tree_sitter_validatetest                   *)
(* (bindings/python/tree_sitter_validatetest/__init__.py).                 *)
(*                                                                         *)
(* The module body is executed top to bottom by the interpreter; pc is the *)
(* source line of the next statement.  The environment of the import is    *)
(* the installed package directory (fs), the encoding of the locale that   *)
(* read_text() falls back to when none is given (locale), and the compiled *)
(* extension module ._binding (binding).                                   *)
(*                                                                         *)
(* Text is a sequence of code points, a file a sequence of bytes.          *)
(***************************************************************************)
EXTENDS Naturals, Sequences, FiniteSets

VARIABLES
    fs,                 \* installed files: path -> [exists, bytes]
    locale,             \* encoding read_text() uses: "utf-8" | "latin-1"
    binding,            \* the extension module ._binding
    pc,                 \* next statement of __init__.py, "done" or "failed"
    exception,          \* the exception that ended the import, or "none"
    ns,                 \* names bound in the module's namespace
    language,           \* value bound to language
    HIGHLIGHTS_QUERY,   \* value bound to HIGHLIGHTS_QUERY
    INJECTIONS_QUERY,   \* value bound to INJECTIONS_QUERY
    __all__,            \* value bound to __all__
    log,                \* history: every import / read_text() performed
    dirty,              \* history: paths written since the import started
    writes,             \* number of environment writes so far
    client              \* names a client got by `from package import *`

vars == <<fs, locale, binding, pc, exception, ns, language, HIGHLIGHTS_QUERY,
          INJECTIONS_QUERY, __all__, log, dirty, writes, client>>

\* Bound on the environment's writes to the package directory.
MaxWrites == 1

----------------------------------------------------------------------------
(* Bytes and text *)

LF == <<10>>

Missing == [exists |-> FALSE, bytes |-> <<>>]
File(b) == [exists |-> TRUE, bytes |-> b]

\* Contents a query file may have on disk: empty, plain ASCII, a line with a
\* Unix, DOS and old-Mac line end, a two-byte UTF-8 sequence (U+00E9), and a
\* truncated one.
Samples ==
    { <<>>, <<97>>, <<59, 10>>, <<97, 13, 10, 98>>, <<13>>,
      <<195, 169>>, <<40, 195>> }

Contents == {Missing} \cup {File(b) : b \in Samples}
WriteContents == {Missing, File(<<98, 98>>)}

Package == "tree_sitter_validatetest"
HPath == <<Package, "queries", "highlights.scm">>
IPath == <<Package, "queries", "injections.scm">>
\* Files of the package directory that the module must not read.
HDecoy == <<Package, "queries", "highlights">>
IDecoy == <<Package, "queries", "injections">>
Paths == {HPath, IPath, HDecoy, IDecoy}
BindingPath == <<Package, "_binding">>

Unbound == [bound |-> FALSE, val |-> <<>>]
Bound(v) == [bound |-> TRUE, val |-> v]

\* bytes.decode("utf-8", "strict") for one- and two-byte sequences (no lead
\* byte >= 224 occurs in Samples).
RECURSIVE DecodeUtf8(_)
DecodeUtf8(b) ==
    IF b = <<>> THEN [ok |-> TRUE, text |-> <<>>]
    ELSE IF Head(b) < 128
    THEN LET r == DecodeUtf8(Tail(b))
         IN  [ok |-> r.ok, text |-> IF r.ok THEN <<Head(b)>> \o r.text ELSE <<>>]
    ELSE IF /\ Head(b) \in 194..223
            /\ Len(b) >= 2
            /\ b[2] \in 128..191
    THEN LET r == DecodeUtf8(Tail(Tail(b)))
             cp == (Head(b) - 192) * 64 + (b[2] - 128)
         IN  [ok |-> r.ok, text |-> IF r.ok THEN <<cp>> \o r.text ELSE <<>>]
    ELSE [ok |-> FALSE, text |-> <<>>]

\* bytes.decode("latin-1"): every byte is the code point of the same value.
DecodeLatin1(b) == [ok |-> TRUE, text |-> b]

Decode(enc, b) == IF enc = "utf-8" THEN DecodeUtf8(b) ELSE DecodeLatin1(b)

\* Universal newlines of a text-mode read (newline=None): "\r\n" and "\r"
\* both become "\n".
RECURSIVE TranslateNewlines(_)
TranslateNewlines(t) ==
    IF t = <<>> THEN <<>>
    ELSE IF Head(t) = 13
    THEN IF Len(t) >= 2 /\ t[2] = 10
         THEN LF \o TranslateNewlines(Tail(Tail(t)))
         ELSE LF \o TranslateNewlines(Tail(t))
    ELSE <<Head(t)>> \o TranslateNewlines(Tail(t))

----------------------------------------------------------------------------
(* The functions of the module *)

\* _files("tree_sitter_validatetest") / "queries" / filename
query_path(filename) == <<Package, "queries", filename>>

\* query_path.read_text(): opens the file in text mode with the locale's
\* encoding and returns the whole of it.
read_text(path, files, enc) ==
    LET f == IF path \in DOMAIN files THEN files[path] ELSE Missing
        d == Decode(enc, f.bytes)
    IN  IF ~f.exists
        THEN [raised |-> "FileNotFoundError", value |-> <<>>,
              read |-> [op |-> "read_text", path |-> path, file |-> f, ok |-> FALSE]]
        ELSE IF ~d.ok
        THEN [raised |-> "UnicodeDecodeError", value |-> <<>>,
              read |-> [op |-> "read_text", path |-> path, file |-> f, ok |-> FALSE]]
        ELSE [raised |-> "none", value |-> TranslateNewlines(d.text),
              read |-> [op |-> "read_text", path |-> path, file |-> f, ok |-> TRUE]]

\* A _get_query that builds the path from its first argument.
_get_query_by_name(name, filename, files, enc) ==
    read_text(query_path(name), files, enc)

\* A _get_query that turns a failed read into an empty query.
_get_query_swallow(name, filename, files, enc) ==
    LET r == read_text(query_path(filename), files, enc)
    IN  [r EXCEPT !.raised = "none"]

\* def _get_query(name, filename): name is not used.
_get_query(name, filename, files, enc) ==
    read_text(query_path(filename), files, enc)

----------------------------------------------------------------------------
(* The environment *)

Bindings ==
    { [importable |-> FALSE, language |-> "none"],      \* extension not built
      [importable |-> TRUE,  language |-> "none"],      \* no such attribute
      [importable |-> TRUE,  language |-> "language_fn_1"],
      [importable |-> TRUE,  language |-> "language_fn_2"] }

Init ==
    /\ fs \in { f \in [Paths -> Contents] :
                  /\ f[HDecoy] \in {Missing, File(<<97>>)}
                  /\ f[IDecoy] \in {Missing, File(<<97>>)} }
    /\ locale \in {"utf-8", "latin-1"}
    /\ binding \in Bindings
    /\ pc = "L3"
    /\ exception = "none"
    /\ ns = {}
    /\ language = "none"
    /\ HIGHLIGHTS_QUERY = Unbound
    /\ INJECTIONS_QUERY = Unbound
    /\ __all__ = Unbound
    /\ log = <<>>
    /\ dirty = {}
    /\ writes = 0
    /\ client = {}

\* Another process changes or removes a query file of the installed package.
FsWrite ==
    /\ writes < MaxWrites
    /\ \E p \in {HPath, IPath} : \E c \in WriteContents :
         /\ fs' = [fs EXCEPT ![p] = c]
         /\ dirty' = dirty \cup {p}
    /\ writes' = writes + 1
    /\ UNCHANGED <<locale, binding, pc, exception, ns, language,
                   HIGHLIGHTS_QUERY, INJECTIONS_QUERY, __all__, log, client>>

----------------------------------------------------------------------------
(* The statements of __init__.py *)

\* from importlib.resources import files as _files
ImportFiles ==
    /\ pc = "L3"
    /\ ns' = ns \cup {"_files"}
    /\ pc' = "L5"
    /\ UNCHANGED <<fs, locale, binding, exception, language, HIGHLIGHTS_QUERY,
                   INJECTIONS_QUERY, __all__, log, dirty, writes, client>>

\* from ._binding import language
ImportBinding ==
    /\ pc = "L5"
    /\ LET ok == binding.importable /\ binding.language # "none"
       IN  /\ log' = Append(log, [op |-> "import", path |-> BindingPath,
                                  file |-> Missing, ok |-> ok])
           /\ IF ok
              THEN /\ language' = binding.language
                   /\ ns' = ns \cup {"language"}
                   /\ pc' = "L8"
                   /\ UNCHANGED exception
              ELSE /\ exception' = "ImportError"
                   /\ pc' = "failed"
                   /\ UNCHANGED <<language, ns>>
    /\ UNCHANGED <<fs, locale, binding, HIGHLIGHTS_QUERY, INJECTIONS_QUERY,
                   __all__, dirty, writes, client>>

\* def _get_query(name, filename): ...
DefGetQuery ==
    /\ pc = "L8"
    /\ ns' = ns \cup {"_get_query"}
    /\ pc' = "L13"
    /\ UNCHANGED <<fs, locale, binding, exception, language, HIGHLIGHTS_QUERY,
                   INJECTIONS_QUERY, __all__, log, dirty, writes, client>>

\* HIGHLIGHTS_QUERY = _get_query("highlights", "highlights.scm")
BindHighlights ==
    /\ pc = "L13"
    /\ LET r == _get_query("highlights", "highlights.scm", fs, locale)
       IN  /\ log' = Append(log, r.read)
           /\ IF r.raised = "none"
              THEN /\ HIGHLIGHTS_QUERY' = Bound(r.value)
                   /\ ns' = ns \cup {"HIGHLIGHTS_QUERY"}
                   /\ pc' = "L14"
                   /\ UNCHANGED exception
              ELSE /\ exception' = r.raised
                   /\ pc' = "failed"
                   /\ UNCHANGED <<HIGHLIGHTS_QUERY, ns>>
    /\ UNCHANGED <<fs, locale, binding, language, INJECTIONS_QUERY, __all__,
                   dirty, writes, client>>

\* INJECTIONS_QUERY = _get_query("injections", "injections.scm")
BindInjections ==
    /\ pc = "L14"
    /\ LET r == _get_query("injections", "injections.scm", fs, locale)
       IN  /\ log' = Append(log, r.read)
           /\ IF r.raised = "none"
              THEN /\ INJECTIONS_QUERY' = Bound(r.value)
                   /\ ns' = ns \cup {"INJECTIONS_QUERY"}
                   /\ pc' = "L16"
                   /\ UNCHANGED exception
              ELSE /\ exception' = r.raised
                   /\ pc' = "failed"
                   /\ UNCHANGED <<INJECTIONS_QUERY, ns>>
    /\ UNCHANGED <<fs, locale, binding, language, HIGHLIGHTS_QUERY, __all__,
                   dirty, writes, client>>

\* __all__ = ["HIGHLIGHTS_QUERY", "INJECTIONS_QUERY", "language"]
BindAll ==
    /\ pc = "L16"
    /\ __all__' = Bound(<<"HIGHLIGHTS_QUERY", "INJECTIONS_QUERY", "language">>)
    /\ ns' = ns \cup {"__all__"}
    /\ pc' = "done"
    /\ UNCHANGED <<fs, locale, binding, exception, language, HIGHLIGHTS_QUERY,
                   INJECTIONS_QUERY, log, dirty, writes, client>>

\* A client's `from tree_sitter_validatetest import *` after the import: it
\* gets the names __all__ lists, each of which must be bound in the module.
StarImport ==
    /\ pc = "done"
    /\ __all__.bound
    /\ \A i \in 1..Len(__all__.val) : __all__.val[i] \in ns
    /\ client' = {__all__.val[i] : i \in 1..Len(__all__.val)}
    /\ UNCHANGED <<fs, locale, binding, pc, exception, ns, language,
                   HIGHLIGHTS_QUERY, INJECTIONS_QUERY, __all__, log, dirty, writes>>

Next ==
    \/ ImportFiles
    \/ ImportBinding
    \/ DefGetQuery
    \/ BindHighlights
    \/ BindInjections
    \/ BindAll
    \/ StarImport
    \/ FsWrite

Spec == Init /\ [][Next]_vars

----------------------------------------------------------------------------
(* Properties *)

PublicNames == {"HIGHLIGHTS_QUERY", "INJECTIONS_QUERY", "language"}

\* Names of the namespace that a leading underscore makes private.
PrivateNames == {"_files", "_get_query", "__all__"}

\* The text of a file's bytes as a text-mode read in encoding enc gives it.
TextOf(enc, b) == TranslateNewlines(Decode(enc, b).text)

\* The imports and reads the module body performs, in source order.
ExpectedLog == <<BindingPath, HPath, IPath>>

\* C8: a finished import has read exactly queries/highlights.scm and
\* queries/injections.scm of the package, in that order and nothing else;
\* HIGHLIGHTS_QUERY is the whole text of the first and INJECTIONS_QUERY the
\* whole text of the second (the file as it is on disk unless it was
\* rewritten since); language is the object ._binding exports; and the
\* public names, those of __all__ and those a star import hands out, are
\* exactly HIGHLIGHTS_QUERY, INJECTIONS_QUERY and language.
C8_ImportBindsQueries ==
    pc = "done" =>
        /\ Len(log) = 3
        /\ [k \in 1..3 |-> log[k].path] = ExpectedLog
        /\ log[2].op = "read_text" /\ log[3].op = "read_text"
        /\ HPath \notin dirty => log[2].file = fs[HPath]
        /\ IPath \notin dirty => log[3].file = fs[IPath]
        /\ HIGHLIGHTS_QUERY = Bound(TextOf(locale, log[2].file.bytes))
        /\ INJECTIONS_QUERY = Bound(TextOf(locale, log[3].file.bytes))
        /\ language = binding.language /\ language # "none"
        /\ __all__ = Bound(<<"HIGHLIGHTS_QUERY", "INJECTIONS_QUERY", "language">>)
        /\ ns \ PrivateNames = PublicNames
        /\ client # {} => client = PublicNames

\* A finished import of a package whose two query files differ, the first
\* with a DOS line end, beside a file named like the query but without its
\* extension, followed by a star import.
C8_Witness ==
    /\ pc = "done"
    /\ fs[HPath] = File(<<97, 13, 10, 98>>)
    /\ fs[HDecoy].exists
    /\ HIGHLIGHTS_QUERY.val = <<97, 10, 98>>
    /\ INJECTIONS_QUERY.val = <<233>>
    /\ client = PublicNames

\* C10: the module body runs in a fixed order (the binding import, then the
\* read of highlights.scm, then the read of injections.scm), a step that
\* fails ends the import with its exception and nothing after it runs, a
\* finished import has both queries bound, only an import still between the
\* two reads or a failed one has exactly one of them bound, and after the
\* import has finished no further read happens.
C10_ImportAllOrNothing ==
    /\ Len(log) <= 3
    /\ \A k \in 1..Len(log) : log[k].path = ExpectedLog[k]
    /\ \A k \in 1..Len(log) : ~log[k].ok => (k = Len(log) /\ pc = "failed")
    /\ pc = "failed" <=> exception # "none"
    /\ pc = "failed" => (~log[Len(log)].ok /\ ~__all__.bound)
    /\ HIGHLIGHTS_QUERY.bound => (Len(log) >= 2 /\ log[2].ok)
    /\ INJECTIONS_QUERY.bound => (Len(log) = 3 /\ log[3].ok /\ HIGHLIGHTS_QUERY.bound)
    /\ pc = "done" =>
          /\ HIGHLIGHTS_QUERY.bound /\ INJECTIONS_QUERY.bound
          /\ Len(log) = 3
    /\ (HIGHLIGHTS_QUERY.bound # INJECTIONS_QUERY.bound) => pc \in {"L14", "failed"}
    /\ client # {} => pc = "done"

\* An import that read highlights.scm and then failed on a missing
\* injections.scm: HIGHLIGHTS_QUERY was bound, INJECTIONS_QUERY was not.
C10_Witness ==
    /\ pc = "failed"
    /\ exception = "FileNotFoundError"
    /\ HIGHLIGHTS_QUERY.bound
    /\ ~INJECTIONS_QUERY.bound
    /\ Len(log) = 3

====
